---- MODULE Spec2Model ----
(***************************************************************************)
(* logspout-cloudwatch: the adapter (CloudwatchAdapter.Stream), the        *)
(* batcher (CloudwatchBatcher.Start / RunTimer) and the uploader           *)
(* (CloudwatchUploader.Start / getSequenceToken) of src/cloudwatch.go,     *)
(* connected by the unbuffered channels batcher.Input, batcher.timer and   *)
(* uploader.Input.                                                         *)
(*                                                                         *)
(* Representation.  A log payload (router.Message.Data) is held as its     *)
(* byte length, the only thing the pipeline reads of it.  time.Now() is a  *)
(* logical clock.  An environment line "K=V" is held as the list of its    *)
(* "="-separated fields.  A nil *string is the value Nil.  A Go map is a   *)
(* function whose DOMAIN is the set of keys present.                       *)
(***************************************************************************)
EXTENDS Integers, Sequences, FiniteSets, TLC

\* ------------------------------------------------------------- bounds
\* Number of records the collector delivers on logstream.
MaxRecords == 2
\* Depth to which the recursion of getSequenceToken is followed.
MaxDepth == 1
\* The records logstream delivers when the remote service is followed.
MaxSharedRecords == 3

\* ---------------------------------------------------------- constants
MAX_BATCH_SIZE == 3000
MSG_OVERHEAD == 26

Nil == "<nil>"

\* ------------------------------------------------------------- inputs
\* Docker container names as the collector reports them.
ContainerNames == {"/a", "/b"}
\* Payload lengths: wire sizes 34, 1514 and 3002.
PayloadLens == {1, 186, 372}
\* Names without the leading slash, for strings.TrimPrefix.
NameSuffixes == {"a", "b"}
\* Sequence tokens the remote service hands out.
Tokens == {"t1", "t2"}
\* Keys renderEnvValue is called with.
EnvKeys == {"LOG_GROUP", "LOG_STREAM"}
\* Template texts a configuration may hold.
TemplateTexts == {"", "logs", "{{.Name}}", "{{.Name", "{{.Nope}}"}
\* The pipeline's configuration: no LOG_GROUP or LOG_STREAM in the logger's
\* own environment or in the route; container /a sets neither, container /b
\* is started with LOG_STREAM set to the empty string.
ProcessEnviron == [k \in EnvKeys |-> ""]
RouteOptions == [k \in {} |-> ""]
ContainerEnv(name) == IF name = "/b" THEN << <<"LOG_STREAM", "">> >> ELSE <<>>

EmptyMap == [k \in {} |-> Nil]

\* m with key k set to v (Go: m[k] = v).
MapPut(m, k, v) == [x \in DOMAIN m \cup {k} |-> IF x = k THEN v ELSE m[x]]

\* m without key k (Go: delete(m, k)).
MapDelete(m, k) == [x \in DOMAIN m \ {k} |-> m[x]]

\* ------------------------------------------------------------ helpers
\* strings.TrimPrefix(s, prefix)
TrimPrefix(s, prefix) ==
    IF \E t \in NameSuffixes : prefix \o t = s
    THEN CHOOSE t \in NameSuffixes : prefix \o t = s
    ELSE s

RECURSIVE Join(_, _)
\* strings.Join(fields, sep)
Join(fields, sep) ==
    IF Len(fields) = 0 THEN ""
    ELSE IF Len(fields) = 1 THEN fields[1]
    ELSE fields[1] \o sep \o Join(Tail(fields), sep)

RECURSIVE parseEnv(_)
\* parseEnv: lines with at least one "=" set env[first field]; a later line
\* overwrites an earlier one.
parseEnv(envLines) ==
    IF Len(envLines) = 0 THEN EmptyMap
    ELSE LET n      == Len(envLines)
             fields == envLines[n]
             env    == parseEnv(SubSeq(envLines, 1, n - 1))
         IN  IF Len(fields) > 1
             THEN MapPut(env, fields[1], Join(Tail(fields), "="))
             ELSE env

\* text/template: Parse fails on an unclosed action.
ParseFails(text) == text = "{{.Name"

\* text/template: Execute fails on a field RenderContext does not have.
ExecuteFails(text, context) == text = "{{.Nope}}"

\* text/template: the text Execute writes for a template that executes.
Execute(text, context) ==
    IF text = "{{.Name}}" THEN context.Name ELSE text

\* SelectFinalVal with the route option consulted last, so that it overrides
\* the container's own value.
SelectFinalValOptionLast(envKey, context, defaultVal, environ, options) ==
    LET v0 == defaultVal
        v1 == IF environ[envKey] # "" THEN environ[envKey] ELSE v0
        v2 == IF envKey \in DOMAIN context.Env THEN context.Env[envKey] ELSE v1
        v3 == IF envKey \in DOMAIN options THEN options[envKey] ELSE v2
    IN  v3

\* Lines 556-565 of renderEnvValue: the template text chosen for envKey.
SelectFinalVal(envKey, context, defaultVal, environ, options) ==
    LET v0 == defaultVal
        v1 == IF environ[envKey] # "" THEN environ[envKey] ELSE v0
        v2 == IF envKey \in DOMAIN options THEN options[envKey] ELSE v1
        v3 == IF envKey \in DOMAIN context.Env THEN context.Env[envKey] ELSE v2
    IN  v3

\* RenderFinalVal keeping the text of a template that cannot be rendered.
RenderFinalValKeepsText(finalVal, context, defaultVal) == finalVal

\* Lines 566-580 of renderEnvValue: parse and execute finalVal.  The
\* assignment of the rendered text (line 577) follows a return and is never
\* executed, so a template that executes yields finalVal itself.
RenderFinalVal(finalVal, context, defaultVal) ==
    IF ParseFails(finalVal) THEN defaultVal
    ELSE IF ExecuteFails(finalVal, context) THEN defaultVal
    ELSE finalVal

renderEnvValue(envKey, context, defaultVal, environ, options) ==
    RenderFinalVal(SelectFinalVal(envKey, context, defaultVal, environ, options),
                   context, defaultVal)

\* msgSize without the per-message overhead.
msgSizeNoOverhead(msg) == msg.Message * 8

\* msgSize: 8 bytes per payload byte plus the per-message overhead.
msgSize(msg) == (msg.Message * 8) + MSG_OVERHEAD

NewCloudwatchBatch == [Msgs |-> <<>>, Size |-> 0]

\* Append putting the record in front of the others.
BatchAppendFront(b, msg) ==
    [Msgs |-> <<msg>> \o b.Msgs, Size |-> b.Size + msgSize(msg)]

\* Append keeping only the new record.
BatchAppendReplaces(b, msg) == [Msgs |-> <<msg>>, Size |-> b.Size + msgSize(msg)]

\* CloudwatchBatch.Append
BatchAppend(b, msg) == [Msgs |-> Append(b.Msgs, msg), Size |-> b.Size + msgSize(msg)]

\* TooLong looking at the open batch only, not at the message to be added.
TooLongIgnoresMsg(b, msg) == b.Size > MAX_BATCH_SIZE

\* Line 223: the open batch cannot take msg.
TooLong(b, msg) == (b.Size + msgSize(msg)) > MAX_BATCH_SIZE

\* os.Hostname() of the logging container.
osHost == "loghost"

\* -------------------------------------------------------------- state
VARIABLES
    environ,      \* os.Getenv for each key, "" for a variable that is not set
    options,      \* route.Options
    containerEnv, \* m.Container.Config.Env of each container
    limit,        \* the number of records logstream delivers
    rgroups,      \* the remote service, where it is followed: the names of its log groups
    rstreams,     \* the log streams of the group named osHost, each with its upload sequence token
    lastPut,      \* for each <<group, stream>>, the token its last successful PutLogEvents returned
    apc,          \* adapter: "range" (waiting on logstream) or "send" (blocked on batcher.Input)
    amsg,         \* the CloudwatchMessage the adapter is sending
    groupnames,   \* CloudwatchAdapter.groupnames
    streamnames,  \* CloudwatchAdapter.streamnames
    lookups,      \* number of InspectContainer calls made for each container
    clock,        \* records taken from logstream so far; the reading of time.Now()
    inspected,    \* the container of the record the adapter holds or dropped and how its lookup went: "ok", "hit" (cached), "err"
    bpc,          \* batcher: "select", "overflow" (blocked at line 224) or "timer" (in the loop of line 230)
    bmsg,         \* the message the batcher is handling while at line 224
    batches,      \* CloudwatchBatcher.batches
    pending,      \* for each key, the messages taken from b.Input and not yet sent on b.output
    tickOpen,     \* while the timer loop runs, the keys that had an open batch when it began
    tickSent,     \* while the timer loop runs, the keys whose batch it has sent, in order
    accepted,     \* the Time of every message the batcher has taken from b.Input
    sent,         \* the Time of every message of every batch the batcher has sent on b.output
    tpc,          \* RunTimer: "sleep" or "ready" (blocked on b.timer)
    upc,          \* uploader: "idle", "groupExists", "createGroup", "describe", "createStream", "put" or "panic"
    batch,        \* the batch the uploader received last, NoBatch before the first
    token,        \* the local variable token of CloudwatchUploader.Start
    tokens,       \* CloudwatchUploader.tokens
    depth,        \* number of recursive calls of getSequenceToken in progress
    calls,        \* the remote calls made for batch so far, with their results
    startTokens,  \* tokens as it was when batch was received
    failTok,      \* for each key whose last PutLogEvents failed, the token that call carried
    lastTime,     \* for each key, the Time of the last record the uploader received before batch
    rpc,          \* renderEnvValue run on its own: "start", "selected" or "done"
    rin,          \* its arguments
    finalVal,     \* its local variable finalVal
    rout          \* the value it returned

cfgVars == <<environ, options, containerEnv, limit>>
remoteVars == <<rgroups, rstreams, lastPut>>
adapterVars == <<apc, amsg, groupnames, streamnames, lookups, clock, inspected>>
batcherVars == <<bpc, bmsg, batches, pending, tickOpen, tickSent, accepted, sent>>
uploaderVars == <<upc, batch, token, tokens, depth, calls, startTokens, failTok, lastTime>>
renderVars == <<rpc, rin, finalVal, rout>>
vars == <<cfgVars, remoteVars, adapterVars, batcherVars, tpc, uploaderVars, renderVars>>

NoRender == Nil
\* Stands for the batch variable of Start before anything was received.
NoInspect == [name |-> "", res |-> "none"]
NoBatch == [Msgs |-> <<>>, Size |-> -1]

\* State after NewCloudwatchAdapter, NewCloudwatchBatcher and
\* NewCloudwatchUploader.
InitPipeline ==
    /\ apc = "range" /\ amsg = Nil
    /\ groupnames = EmptyMap /\ streamnames = EmptyMap
    /\ lookups = [n \in ContainerNames |-> 0]
    /\ clock = 0 /\ inspected = NoInspect
    /\ bpc = "select" /\ bmsg = Nil /\ batches = EmptyMap
    /\ pending = [k \in NameSuffixes |-> <<>>]
    /\ tickOpen = {} /\ tickSent = <<>>
    /\ accepted = {} /\ sent = {}
    /\ tpc = "sleep"
    /\ upc = "idle" /\ batch = NoBatch /\ token = Nil
    /\ tokens = EmptyMap /\ depth = 0 /\ calls = <<>>
    /\ startTokens = EmptyMap /\ failTok = EmptyMap
    /\ lastTime = [k \in NameSuffixes |-> 0]

\* The configuration of the pipeline.
InitConfig ==
    /\ environ = ProcessEnviron
    /\ options = RouteOptions
    /\ containerEnv = [name \in ContainerNames |-> ContainerEnv(name)]
    /\ limit = MaxRecords

\* The remote service is not followed: its answers are free.
RemoteFree == rgroups = {} /\ rstreams = EmptyMap /\ lastPut = EmptyMap

Init ==
    /\ InitConfig
    /\ RemoteFree
    /\ InitPipeline
    /\ rpc = "done" /\ rin = NoRender /\ finalVal = Nil /\ rout = Nil

\* A panic in any goroutine ends the process.
Running == upc # "panic"

\* --------------------------------------------------- CloudwatchAdapter
RenderContext(name) ==
    [Env |-> parseEnv(containerEnv[name]), Name |-> TrimPrefix(name, "/"),
     LoggerHost |-> osHost]

CloudwatchMessage(data, group, stream, time, container) ==
    [Message |-> data, Group |-> group, Stream |-> stream, Time |-> time,
     Container |-> container]

\* Line 509: the cached names do not settle the destination.
NeedsLookup(groupName, streamName) == (streamName = "") \/ (groupName = "")

\* OnInspectError sending the record on with empty names.
OnInspectErrorForwards(name, data) ==
    /\ amsg' = CloudwatchMessage(data, "", "", clock', TrimPrefix(name, "/"))
    /\ apc' = "send"
    /\ inspected' = [name |-> name, res |-> "err"]
    /\ UNCHANGED <<groupnames, streamnames>>

\* Stream, lines 512-515: InspectContainer failed; the record is dropped.
OnInspectError(name, data) ==
    /\ inspected' = [name |-> name, res |-> "err"]
    /\ UNCHANGED <<groupnames, streamnames, amsg, apc>>

\* Stream, lines 499-528: one record of container name taken from logstream,
\* InspectContainer answering inspectOK if it is called.
AdapterRecv(name, data, inspectOK) ==
    LET cachedGroup  == IF name \in DOMAIN groupnames THEN groupnames[name] ELSE ""
        cachedStream == IF name \in DOMAIN streamnames THEN streamnames[name] ELSE ""
        context      == RenderContext(name)
        groupName    == renderEnvValue("LOG_GROUP", context, osHost, environ, options)
        streamName   == renderEnvValue("LOG_STREAM", context, context.Name,
                                       environ, options)
    IN  /\ Running /\ apc = "range" /\ clock < limit
        /\ clock' = clock + 1
        /\ IF NeedsLookup(cachedGroup, cachedStream)
           THEN /\ lookups' = [lookups EXCEPT ![name] = @ + 1]
                /\ IF inspectOK
                   THEN /\ groupnames' = MapPut(groupnames, name, groupName)
                        /\ streamnames' = MapPut(streamnames, name, streamName)
                        /\ amsg' = CloudwatchMessage(data, groupName, streamName,
                                                     clock', TrimPrefix(name, "/"))
                        /\ apc' = "send"
                        /\ inspected' = [name |-> name, res |-> "ok"]
                   ELSE OnInspectError(name, data)
           ELSE /\ inspectOK
                /\ inspected' = [name |-> name, res |-> "hit"]
                /\ amsg' = CloudwatchMessage(data, cachedGroup, cachedStream,
                                             clock', TrimPrefix(name, "/"))
                /\ apc' = "send"
                /\ UNCHANGED <<groupnames, streamnames, lookups>>
        /\ UNCHANGED <<batcherVars, tpc, uploaderVars, renderVars, cfgVars, remoteVars>>

\* -------------------------------------------------- CloudwatchUploader
\* Start, lines 291-313 up to the first remote call: b arrives on u.Input.
UploaderReceive(b) ==
    /\ upc = "idle"
    /\ batch' = b
    /\ calls' = <<>>
    /\ depth' = 0
    /\ startTokens' = tokens
    /\ lastTime' = IF batch = NoBatch \/ batch.Msgs = <<>> THEN lastTime
                   ELSE [lastTime EXCEPT ![batch.Msgs[1].Container] =
                            batch.Msgs[Len(batch.Msgs)].Time]
    /\ UNCHANGED <<tokens, failTok>>
    /\ IF b.Msgs = <<>>
       THEN \* line 292: index out of range
            /\ upc' = "panic" /\ token' = Nil
       ELSE LET msg == b.Msgs[1]
            IN  IF msg.Container \in DOMAIN tokens
                THEN /\ token' = tokens[msg.Container] /\ upc' = "put"
                ELSE /\ token' = Nil /\ upc' = "groupExists"

\* --------------------------------------------------- CloudwatchBatcher
\* The Time of each of the messages msgs.
Times(msgs) == { msgs[i].Time : i \in 1..Len(msgs) }

\* BatchKey putting the messages of every container into one batch.
BatchKeyShared(msg) == "a"

\* Lines 217-228: the index of b.batches a message goes under.
BatchKey(msg) == msg.Container

\* Start, lines 217-228: a message arrives on b.Input.
BatcherRecv ==
    LET msg  == amsg
        open == IF BatchKey(msg) \in DOMAIN batches THEN batches
                ELSE MapPut(batches, BatchKey(msg), NewCloudwatchBatch)
    IN  /\ Running /\ bpc = "select" /\ apc = "send"
        /\ apc' = "range" /\ amsg' = Nil /\ inspected' = NoInspect
        /\ pending' = [pending EXCEPT ![msg.Container] = Append(@, msg)]
        /\ accepted' = accepted \cup {msg.Time}
        /\ UNCHANGED <<tickOpen, tickSent, sent>>
        /\ IF TooLong(open[BatchKey(msg)], msg)
           THEN /\ batches' = open /\ bpc' = "overflow" /\ bmsg' = msg
           ELSE /\ batches' = MapPut(open, BatchKey(msg),
                                     BatchAppend(open[BatchKey(msg)], msg))
                /\ UNCHANGED <<bpc, bmsg>>
        /\ UNCHANGED <<groupnames, streamnames, lookups, clock, tpc,
                       uploaderVars, renderVars, cfgVars, remoteVars>>

\* Reopened appending to the batch that was sent instead of a new one.
ReopenedKeepsOld(old, msg) == BatchAppend(old, msg)

\* Start, lines 225-228: the batch that follows the batch old just sent.
Reopened(old, msg) == BatchAppend(NewCloudwatchBatch, msg)

\* Start, lines 224-228: the open batch is taken by the uploader, a new one
\* replaces it and the message is appended.
BatcherFlushOverflow ==
    /\ Running /\ bpc = "overflow"
    /\ UploaderReceive(batches[BatchKey(bmsg)])
    /\ batches' = MapPut(batches, BatchKey(bmsg), Reopened(batches[BatchKey(bmsg)], bmsg))
    /\ pending' = [pending EXCEPT ![bmsg.Container] =
                       SubSeq(@, Len(batches[BatchKey(bmsg)].Msgs) + 1, Len(@))]
    /\ sent' = sent \cup Times(batches[BatchKey(bmsg)].Msgs)
    /\ bpc' = "select" /\ bmsg' = Nil
    /\ UNCHANGED <<tickOpen, tickSent, accepted>>
    /\ UNCHANGED <<adapterVars, tpc, renderVars, cfgVars, remoteVars>>

\* Start, line 229: the timer's signal is taken.
BatcherTick ==
    /\ Running /\ bpc = "select" /\ tpc = "ready"
    /\ tpc' = "sleep"
    /\ bpc' = IF DOMAIN batches = {} THEN "select" ELSE "timer"
    /\ tickOpen' = DOMAIN batches /\ tickSent' = <<>>
    /\ UNCHANGED <<adapterVars, bmsg, batches, pending, accepted, sent, uploaderVars,
                   renderVars, cfgVars, remoteVars>>

\* AfterSend leaving the batch that was sent in the map.
AfterSendKeeps(container) == batches

\* Start, line 232: the batch that was sent is deleted from the map.
AfterSend(container) == MapDelete(batches, container)

\* Start, lines 230-233: one round of the loop over b.batches, in the order
\* the map iteration happens to take.
BatcherFlushTimer(container) ==
    /\ Running /\ bpc = "timer" /\ container \in DOMAIN batches
    /\ UploaderReceive(batches[container])
    /\ batches' = AfterSend(container)
    /\ pending' = [pending EXCEPT ![container] =
                       SubSeq(@, Len(batches[container].Msgs) + 1, Len(@))]
    /\ IF DOMAIN batches' = {}
       THEN bpc' = "select" /\ tickOpen' = {} /\ tickSent' = <<>>
       ELSE bpc' = "timer" /\ tickSent' = Append(tickSent, container)
            /\ UNCHANGED tickOpen
    /\ sent' = sent \cup Times(batches[container].Msgs)
    /\ UNCHANGED <<adapterVars, bmsg, accepted, tpc, renderVars, cfgVars, remoteVars>>

\* RunTimer, lines 253-254: the sleep ends.
TimerFire ==
    /\ Running /\ tpc = "sleep"
    /\ tpc' = "ready"
    /\ UNCHANGED <<adapterVars, batcherVars, uploaderVars, renderVars, cfgVars, remoteVars>>

\* ------------------------------------- CloudwatchUploader, remote calls
Call(op, res) == [op |-> op, res |-> res]

Key == batch.Msgs[1].Container

\* Lines 304-307 and 334-337: the error is logged and the loop continues.
Abandon(op) ==
    /\ calls' = Append(calls, Call(op, "err"))
    /\ upc' = "idle"
    /\ UNCHANGED <<batch, token, tokens, depth, startTokens, failTok, lastTime>>

\* GroupExists going on to createGroup whatever the check reported.
GroupExistsAlwaysCreates(res) ==
    /\ upc = "groupExists"
    /\ IF res = "err" THEN Abandon("groupExists")
       ELSE /\ calls' = Append(calls, Call("groupExists", res))
            /\ upc' = "createGroup"
            /\ UNCHANGED <<batch, token, tokens, depth, startTokens, failTok, lastTime>>
    /\ UNCHANGED <<adapterVars, batcherVars, tpc, renderVars, cfgVars>>

\* groupExists, lines 387-404.  An error of DescribeLogGroups and more than
\* one matching group both come back as an error.
GroupExists(res) ==
    /\ upc = "groupExists"
    /\ IF res = "err" THEN Abandon("groupExists")
       ELSE /\ calls' = Append(calls, Call("groupExists", res))
            /\ upc' = IF res = "exists" THEN "describe" ELSE "createGroup"
            /\ UNCHANGED <<batch, token, tokens, depth, startTokens, failTok, lastTime>>
    /\ UNCHANGED <<adapterVars, batcherVars, tpc, renderVars, cfgVars>>

\* createGroup, lines 358-363 and 406-415.
CreateGroup(res) ==
    /\ upc = "createGroup"
    /\ IF res = "err" THEN Abandon("createGroup")
       ELSE /\ calls' = Append(calls, Call("createGroup", "ok"))
            /\ upc' = "describe"
            /\ UNCHANGED <<batch, token, tokens, depth, startTokens, failTok, lastTime>>
    /\ UNCHANGED <<adapterVars, batcherVars, tpc, renderVars, cfgVars>>

\* CacheFetched without the nil check of line 308.
CacheFetchedAlways(awsToken) ==
    /\ tokens' = MapPut(tokens, Key, awsToken) /\ token' = awsToken

\* Lines 308-312 of Start: what is done with the token getSequenceToken
\* returned without error.
CacheFetched(awsToken) ==
    IF awsToken # Nil
    THEN /\ tokens' = MapPut(tokens, Key, awsToken) /\ token' = awsToken
    ELSE UNCHANGED <<tokens, token>>

\* DescribeStream taking the first stream when more than one matches.
DescribeStreamTakesFirst(res, awsToken) ==
    /\ upc = "describe"
    /\ res \in {"err", "many"} => awsToken = Nil
    /\ res = "none" => awsToken = Nil
    /\ calls' = Append(calls, Call("describeStream", res))
    /\ IF res = "err"
       THEN /\ upc' = "idle"
            /\ UNCHANGED <<batch, token, tokens, depth, startTokens, failTok, lastTime>>
       ELSE IF res = "none"
       THEN /\ upc' = "createStream"
            /\ UNCHANGED <<batch, token, tokens, depth, startTokens, failTok, lastTime>>
       ELSE /\ CacheFetched(awsToken)
            /\ upc' = "put"
            /\ UNCHANGED <<batch, depth, startTokens, failTok, lastTime>>
    /\ UNCHANGED <<adapterVars, batcherVars, tpc, renderVars, cfgVars>>

\* getSequenceToken, lines 364-384: DescribeLogStreams answers with an error
\* or with "none", "one" or "many" streams, the one carrying awsToken.
DescribeStream(res, awsToken) ==
    /\ upc = "describe"
    /\ res \in {"err", "many"} => awsToken = Nil
    /\ res = "none" => awsToken = Nil
    /\ IF res \in {"err", "many"}
       THEN /\ calls' = Append(calls, Call("describeStream", res))
            /\ upc' = "idle"
            /\ UNCHANGED <<batch, token, tokens, depth, startTokens, failTok, lastTime>>
       ELSE IF res = "none"
       THEN /\ calls' = Append(calls, Call("describeStream", res))
            /\ upc' = "createStream"
            /\ UNCHANGED <<batch, token, tokens, depth, startTokens, failTok, lastTime>>
       ELSE /\ calls' = Append(calls, Call("describeStream", res))
            /\ CacheFetched(awsToken)
            /\ upc' = "put"
            /\ UNCHANGED <<batch, depth, startTokens, failTok, lastTime>>
    /\ UNCHANGED <<adapterVars, batcherVars, tpc, renderVars, cfgVars>>

\* getSequenceToken, lines 377-383, and createStream, lines 417-427: after
\* the stream is created getSequenceToken calls itself.
CreateStream(res) ==
    /\ upc = "createStream"
    /\ IF res = "err" THEN Abandon("createStream")
       ELSE /\ depth < MaxDepth
            /\ calls' = Append(calls, Call("createStream", "ok"))
            /\ depth' = depth + 1
            /\ upc' = "groupExists"
            /\ UNCHANGED <<batch, token, tokens, startTokens, failTok, lastTime>>
    /\ UNCHANGED <<adapterVars, batcherVars, tpc, renderVars, cfgVars>>

\* CacheNext replacing the whole cache by the entry of the batch's key.
CacheNextResets(next) ==
    IF next # Nil THEN tokens' = [k \in {Key} |-> next] ELSE UNCHANGED tokens

\* CacheNext caching the token the submission carried.
CacheNextKeepsUsed(next) == tokens' = MapPut(tokens, Key, token)

\* Lines 339-343 of Start: what is done with the token of a response.
CacheNext(next) ==
    IF next # Nil THEN tokens' = MapPut(tokens, Key, next) ELSE UNCHANGED tokens

\* OnPutError dropping the cached token of the stream.
OnPutErrorClears == tokens' = MapDelete(tokens, Key)

\* Lines 334-337 of Start: PutLogEvents failed; the error is logged.
OnPutError == UNCHANGED tokens

\* Start, lines 315-343: PutLogEvents fails, or answers with NextSequenceToken next.
PutRecords(res, next) ==
    /\ upc = "put"
    /\ res = "err" => next = Nil
    /\ calls' = Append(calls, Call("putRecords", res))
    /\ upc' = "idle"
    /\ IF res = "err" THEN OnPutError ELSE CacheNext(next)
    /\ failTok' = IF res = "err" THEN MapPut(failTok, Key, token)
                  ELSE MapDelete(failTok, Key)
    /\ UNCHANGED <<batch, token, depth, startTokens, lastTime>>
    /\ UNCHANGED <<adapterVars, batcherVars, tpc, renderVars, cfgVars>>

\* --------------------------------------------------------- the program
Next ==
    \/ \E name \in ContainerNames, data \in PayloadLens, inspectOK \in BOOLEAN :
          AdapterRecv(name, data, inspectOK)
    \/ BatcherRecv
    \/ BatcherFlushOverflow
    \/ BatcherTick
    \/ \E container \in NameSuffixes : BatcherFlushTimer(container)
    \/ TimerFire
    \/ \E res \in {"exists", "absent", "err"} : GroupExists(res) /\ UNCHANGED remoteVars
    \/ \E res \in {"ok", "err"} : CreateGroup(res) /\ UNCHANGED remoteVars
    \/ \E res \in {"none", "one", "many", "err"}, awsToken \in Tokens \cup {Nil} :
          DescribeStream(res, awsToken) /\ UNCHANGED remoteVars
    \/ \E res \in {"ok", "err"} : CreateStream(res) /\ UNCHANGED remoteVars
    \/ \E res \in {"ok", "err"}, next \in Tokens \cup {Nil} :
          PutRecords(res, next) /\ UNCHANGED remoteVars

Spec == Init /\ [][Next]_vars

\* The steps of the batcher other than taking the timer's signal, and the
\* steps of the uploader: every remote call returns.
BatcherStep ==
    \/ BatcherRecv
    \/ BatcherFlushOverflow
    \/ \E container \in NameSuffixes : BatcherFlushTimer(container)

UploaderStep ==
    \/ \E res \in {"exists", "absent", "err"} : GroupExists(res) /\ UNCHANGED remoteVars
    \/ \E res \in {"ok", "err"} : CreateGroup(res) /\ UNCHANGED remoteVars
    \/ \E res \in {"none", "one", "many", "err"}, awsToken \in Tokens \cup {Nil} :
          DescribeStream(res, awsToken) /\ UNCHANGED remoteVars
    \/ \E res \in {"ok", "err"} : CreateStream(res) /\ UNCHANGED remoteVars
    \/ \E res \in {"ok", "err"}, next \in Tokens \cup {Nil} :
          PutRecords(res, next) /\ UNCHANGED remoteVars

\* The pipeline under fair scheduling: the timer goroutine keeps signalling
\* (RunTimer, lines 238-256), a goroutine that can take a step takes one,
\* and the batcher's select, which picks at random among the cases that are
\* ready, does not pass over the timer's signal for ever.
SpecFair ==
    /\ Spec
    /\ WF_vars(TimerFire)
    /\ SF_vars(BatcherTick)
    /\ WF_vars(BatcherStep)
    /\ WF_vars(UploaderStep)

\* ------------------------------------------- renderEnvValue on its own
\* Container environments renderEnvValue is run with for key k: without k,
\* with a line k that has no "=", with k set to each template text, with k
\* set twice, and with a value that itself holds a "=".
RenderEnvs(k) ==
    { <<>>, << <<k>> >>, << <<"PATH", "/bin">> >>, << <<k, "a", "b">> >>,
      << <<k, "logs">>, <<k, "{{.Name}}">> >> }
    \cup { << <<k, t>> >> : t \in TemplateTexts }

\* Route options: k absent, or given with a template text.
RenderOptions(k) == {EmptyMap} \cup { [x \in {k} |-> t] : t \in TemplateTexts }

RenderInputs ==
    UNION { [envKey : {k}, envLines : RenderEnvs(k),
             environ : [{k} -> TemplateTexts], options : RenderOptions(k),
             Name : NameSuffixes] : k \in EnvKeys }

\* The RenderContext and the default Stream passes for rin (lines 516-525).
RenderCtx == [Env |-> parseEnv(rin.envLines), Name |-> rin.Name, LoggerHost |-> osHost]
RenderDefault == IF rin.envKey = "LOG_GROUP" THEN osHost ELSE rin.Name

InitRender ==
    /\ InitConfig
    /\ RemoteFree
    /\ InitPipeline
    /\ rpc = "start" /\ rin \in RenderInputs /\ finalVal = Nil /\ rout = Nil

\* renderEnvValue, lines 556-565.
RenderSelect ==
    /\ rpc = "start"
    /\ finalVal' = SelectFinalVal(rin.envKey, RenderCtx, RenderDefault,
                                  rin.environ, rin.options)
    /\ rpc' = "selected"
    /\ UNCHANGED <<rin, rout, adapterVars, batcherVars, tpc, uploaderVars, cfgVars, remoteVars>>

\* renderEnvValue, lines 566-580.
RenderReturn ==
    /\ rpc = "selected"
    /\ rout' = RenderFinalVal(finalVal, RenderCtx, RenderDefault)
    /\ rpc' = "done"
    /\ UNCHANGED <<rin, finalVal, adapterVars, batcherVars, tpc, uploaderVars, cfgVars, remoteVars>>

\* ------------------------------------------- the remote service followed
\* The pipeline with the remote service followed: the log groups and the log
\* streams it has, and the upload sequence token of each stream.  The
\* containers set no names of their own; the logger's environment either
\* sets none, and each container gets the stream of its name, or sets
\* LOG_STREAM to "logs", and both containers get the same stream.  Nothing
\* but this process changes the remote service.
SharedEnviron == [k \in EnvKeys |-> IF k = "LOG_STREAM" THEN "logs" ELSE ""]

\* strings.HasPrefix, for the names the remote service can hold: a name, and
\* the name with "-2" after it.
HasPrefix(str, prefix) == str = prefix \/ str = prefix \o "-2"

\* What the remote service holds at the start.
RemoteStarts ==
    { [groups |-> {}, streams |-> EmptyMap],
      [groups |-> {osHost \o "-2"}, streams |-> EmptyMap],
      [groups |-> {osHost}, streams |-> EmptyMap],
      [groups |-> {osHost}, streams |-> [n \in {"logs"} |-> "t1"]],
      [groups |-> {osHost}, streams |-> [n \in {"logs-2"} |-> "t1"]] }

\* The token PutLogEvents returns for a submission that carried token t.
NextToken(t) == IF t = "t1" THEN "t2" ELSE "t1"

InitRemote ==
    /\ environ \in {ProcessEnviron, SharedEnviron}
    /\ options = RouteOptions
    /\ containerEnv = [name \in ContainerNames |-> <<>>]
    /\ limit = MaxSharedRecords
    /\ \E r \in RemoteStarts : rgroups = r.groups /\ rstreams = r.streams
    /\ lastPut = EmptyMap
    /\ InitPipeline
    /\ rpc = "done" /\ rin = NoRender /\ finalVal = Nil /\ rout = Nil

\* The group and the stream the uploader handles batch for (lines 325-326, 352).
Group == batch.Msgs[1].Group
Stream == batch.Msgs[1].Stream

\* DescribeLogGroups with LogGroupNamePrefix (lines 389-392).
RemoteGroupExists ==
    LET n == Cardinality({ g \in rgroups : HasPrefix(g, Group) })
    IN  /\ upc = "groupExists"
        /\ GroupExists(IF n > 1 THEN "err" ELSE IF n = 1 THEN "exists" ELSE "absent")
        /\ UNCHANGED remoteVars

\* CreateLogGroup (lines 408-411).
RemoteCreateGroup ==
    /\ upc = "createGroup"
    /\ IF Group \in rgroups
       THEN CreateGroup("err") /\ UNCHANGED remoteVars
       ELSE /\ CreateGroup("ok")
            /\ rgroups' = rgroups \cup {Group}
            /\ UNCHANGED <<rstreams, lastPut>>

\* DescribeLogStreams with LogGroupName and LogStreamNamePrefix (lines 364-369).
RemoteDescribeStream ==
    LET found == { n \in DOMAIN rstreams : HasPrefix(n, Stream) }
    IN  /\ upc = "describe"
        /\ IF Group \notin rgroups THEN DescribeStream("err", Nil)
           ELSE IF found = {} THEN DescribeStream("none", Nil)
           ELSE IF Cardinality(found) = 1
           THEN DescribeStream("one", rstreams[CHOOSE n \in found : TRUE])
           ELSE DescribeStream("many", Nil)
        /\ UNCHANGED remoteVars

\* CreateLogStream (lines 419-423).
RemoteCreateStream ==
    /\ upc = "createStream"
    /\ IF Group \notin rgroups \/ Stream \in DOMAIN rstreams
       THEN CreateStream("err") /\ UNCHANGED remoteVars
       ELSE /\ CreateStream("ok")
            /\ rstreams' = MapPut(rstreams, Stream, Nil)
            /\ UNCHANGED <<rgroups, lastPut>>

\* PutLogEvents (line 333): accepted when the stream exists and the token is
\* the stream's.
RemotePutRecords ==
    /\ upc = "put"
    /\ IF Group \notin rgroups \/ Stream \notin DOMAIN rstreams
       THEN PutRecords("err", Nil) /\ UNCHANGED remoteVars
       ELSE IF token # rstreams[Stream]
       THEN PutRecords("err", Nil) /\ UNCHANGED remoteVars
       ELSE /\ PutRecords("ok", NextToken(token))
            /\ rstreams' = MapPut(rstreams, Stream, NextToken(token))
            /\ lastPut' = MapPut(lastPut, <<Group, Stream>>, NextToken(token))
            /\ UNCHANGED rgroups

\* Any remote call can also fail, whatever the remote service holds.
RemoteError ==
    /\ \/ GroupExists("err")
       \/ CreateGroup("err")
       \/ DescribeStream("err", Nil)
       \/ CreateStream("err")
       \/ PutRecords("err", Nil)
    /\ UNCHANGED remoteVars

NextRemote ==
    \/ \E name \in ContainerNames : AdapterRecv(name, 1, TRUE)
    \/ BatcherRecv
    \/ BatcherTick
    \/ \E container \in NameSuffixes : BatcherFlushTimer(container)
    \/ TimerFire
    \/ RemoteGroupExists
    \/ RemoteCreateGroup
    \/ RemoteDescribeStream
    \/ RemoteCreateStream
    \/ RemotePutRecords
    \/ RemoteError

SpecRemote == InitRemote /\ [][NextRemote]_vars

\* ------------------------------------------------ Stream on its own
\* Stream (lines 498-537) under every configuration of naming overrides: the
\* adapter takes records and the batcher accepts them.
StreamEnvs ==
    { <<>>,
      << <<"LOG_GROUP", "{{.Nope}}">> >>,
      << <<"LOG_STREAM", "{{.Name">> >>,
      << <<"LOG_GROUP", "{{.Name">>, <<"LOG_STREAM", "{{.Nope}}">> >>,
      << <<"LOG_STREAM", "">> >>,
      << <<"LOG_GROUP", "logs">>, <<"LOG_STREAM", "{{.Name}}">> >> }

StreamOptions == { EmptyMap, [k \in {"LOG_GROUP"} |-> "{{.Name"], [k \in {"LOG_STREAM"} |-> "logs"] }

InitStream ==
    /\ environ \in [EnvKeys -> {"", "{{.Nope}}"}]
    /\ options \in StreamOptions
    /\ containerEnv \in [ContainerNames -> StreamEnvs]
    /\ limit = MaxRecords
    /\ RemoteFree
    /\ InitPipeline
    /\ rpc = "done" /\ rin = NoRender /\ finalVal = Nil /\ rout = Nil

NextStream ==
    \/ \E name \in ContainerNames, inspectOK \in BOOLEAN : AdapterRecv(name, 1, inspectOK)
    \/ BatcherRecv

SpecStream == InitStream /\ [][NextStream]_vars

NextRender == RenderSelect \/ RenderReturn

SpecRender == InitRender /\ [][NextRender]_vars

\* ============================================================ properties
\* The entry of key k in a token map, Nil when k is absent.
Entry(m, k) == IF k \in DOMAIN m THEN m[k] ELSE Nil

\* Every batch there is: the open ones and the one the uploader holds.
AllBatches ==
    { batches[c] : c \in DOMAIN batches } \cup (IF batch = NoBatch THEN {} ELSE {batch})

\* The last remote call made for batch, and whether handling of batch ended
\* with a failed PutLogEvents.
LastCall == calls[Len(calls)]
PutFailed ==
    /\ upc = "idle" /\ calls # <<>>
    /\ LastCall = Call("putRecords", "err")

NumCalls(op) == Cardinality({ i \in 1..Len(calls) : calls[i].op = op })

RECURSIVE WireSize(_)
\* Sum over the records of payload length * 8 + 26.
WireSize(msgs) ==
    IF msgs = <<>> THEN 0
    ELSE ((Head(msgs).Message * 8) + 26) + WireSize(Tail(msgs))

Oversized(msg) == ((msg.Message * 8) + 26) > 3000

\* C1: every batch the batcher hands to the uploader holds at least one
\* record.
C1_NoEmptyBatchSent == batch # NoBatch => Len(batch.Msgs) >= 1

\* C2: the uploader never reaches a crashed state, whatever batch it
\* received and whatever the remote calls answered.
C2_UploaderNeverCrashes == upc # "panic"

\* C3: a record of a source whose group and stream are in the cache is
\* resolved from the cache, without a call of InspectContainer.
C3_ResolvedSourceNotLookedUp ==
    [][\A name \in ContainerNames :
          (name \in DOMAIN groupnames /\ name \in DOMAIN streamnames)
              => lookups'[name] = lookups[name]]_vars

\* C4 as stated: after a failed PutLogEvents the token cache entry of the
\* batch's stream is what it was when the uploader received the batch.
C4_EntryAsBeforeBatch == PutFailed => Entry(tokens, Key) = Entry(startTokens, Key)

\* C4 as amended: after a failed PutLogEvents the entry is the token the
\* failed call carried (absent if it carried none); an entry present when
\* the batch was received is unchanged; and the next batch of a stream whose
\* last submission failed carrying a token is submitted with that token.
C4_EntryAsSubmitted ==
    /\ PutFailed =>
          /\ Entry(tokens, Key) = token
          /\ Key \in DOMAIN startTokens => Entry(tokens, Key) = startTokens[Key]
          /\ Key \notin DOMAIN startTokens =>
                \/ Entry(tokens, Key) = Nil
                \/ \E i \in 1..Len(calls) : calls[i] = Call("describeStream", "one")
    /\ (upc = "put" /\ Entry(failTok, Key) # Nil) => token = failTok[Key]

\* C4 witness: a batch is about to be submitted for a stream whose previous
\* submission failed carrying a token.
C4_Witness == upc = "put" /\ Entry(failTok, Key) # Nil

\* C5 as stated: the token cache changes only in the step that handles a
\* successful PutLogEvents response.
C5_OnlyPutWritesCache ==
    [][tokens' # tokens =>
          /\ upc = "put" /\ upc' = "idle"
          /\ calls'[Len(calls')] = Call("putRecords", "ok")]_vars

\* C5 as amended: the token cache changes only in the step that handles a
\* successful PutLogEvents response, or in the step in which
\* getSequenceToken, called on a cache miss, returns a token.
C5_OnlyPutOrFetchWritesCache ==
    [][tokens' # tokens =>
          \/ /\ upc = "put" /\ upc' = "idle"
             /\ calls'[Len(calls')] = Call("putRecords", "ok")
             /\ tokens' = MapPut(tokens, Key, Entry(tokens', Key))
          \/ /\ upc = "describe" /\ upc' = "put"
             /\ calls'[Len(calls')] = Call("describeStream", "one")
             /\ Key \notin DOMAIN tokens
             /\ token' # Nil
             /\ tokens' = MapPut(tokens, Key, token')]_vars

\* C5 witness: the cache holds a token that was fetched for the batch about
\* to be submitted.
C5_Witness ==
    /\ upc = "put" /\ Key \notin DOMAIN startTokens /\ Key \in DOMAIN tokens

\* C6: for one batch CreateLogStream is called at most once and
\* DescribeLogStreams at most twice.
C6_OneRetry == NumCalls("createStream") <= 1 /\ NumCalls("describeStream") <= 2

\* C7: finalVal is the container's value for the key if the container
\* environment has one, else the route option if given, else the logger's
\* environment variable if set, else the default.
C7_Precedence ==
    rpc \in {"selected", "done"} =>
        finalVal =
            IF rin.envKey \in DOMAIN parseEnv(rin.envLines)
            THEN parseEnv(rin.envLines)[rin.envKey]
            ELSE IF rin.envKey \in DOMAIN rin.options THEN rin.options[rin.envKey]
            ELSE IF rin.environ[rin.envKey] # "" THEN rin.environ[rin.envKey]
            ELSE IF rin.envKey = "LOG_GROUP" THEN osHost ELSE rin.Name

\* C7 witness: a route option and a logger variable are both given and the
\* container has no value of its own, so that the option is what is chosen.
C7_Witness ==
    /\ rpc = "done"
    /\ rin.envKey \notin DOMAIN parseEnv(rin.envLines)
    /\ rin.envKey \in DOMAIN rin.options
    /\ rin.environ[rin.envKey] # ""
    /\ rin.environ[rin.envKey] # rin.options[rin.envKey]

\* C8: when the chosen text parses and executes, renderEnvValue returns the
\* text the template writes.
C8_ReturnsRendered ==
    (rpc = "done" /\ ~ParseFails(finalVal) /\ ~ExecuteFails(finalVal, RenderCtx))
        => rout = Execute(finalVal, RenderCtx)

\* C9: a batch larger than MAX_BATCH_SIZE holds exactly one record, itself
\* larger than MAX_BATCH_SIZE; a record larger than MAX_BATCH_SIZE is alone
\* in its batch; and the batcher, done with such a record, has it as the
\* only record of the stream's open batch.
C9_BatchBound ==
    /\ [](\A b \in AllBatches :
            /\ b.Size > 3000 => (Len(b.Msgs) = 1 /\ Oversized(b.Msgs[1]))
            /\ \A i \in 1..Len(b.Msgs) : Oversized(b.Msgs[i]) => Len(b.Msgs) = 1)
    /\ [][(apc = "send" /\ Oversized(amsg) /\ apc' = "range")
              => (bpc' = "overflow" /\ bmsg' = amsg)]_vars
    /\ [][(bpc = "overflow" /\ bpc' = "select")
              => batches'[bmsg.Container].Msgs = <<bmsg>>]_vars

\* C9 witness: the uploader holds a batch larger than MAX_BATCH_SIZE.
C9_Witness == batch # NoBatch /\ batch.Size > 3000

\* C10: the Size of every batch is the sum of payload length * 8 + 26 over
\* its records.
C10_SizeIsSum == \A b \in AllBatches : b.Size = WireSize(b.Msgs)

\* C10 witness: a batch of two records.
C10_Witness == \E b \in AllBatches : Len(b.Msgs) >= 2

\* The elements of a sequence.
SeqRange(seq) == { seq[i] : i \in 1..Len(seq) }

\* A step of the timer loop that sends one batch.
TimerSend == bpc = "timer" /\ (bpc' = "select" \/ tickSent' # tickSent)

\* C11: a timer signal taken with k open batches sends exactly k batches: the
\* batches sent so far and the batches still open are, at every moment of the
\* loop, the batches open when it began, none of them sent twice; each send
\* hands the uploader the open batch of a key not sent yet and removes it;
\* the loop ends with the k-th send and leaves the map empty; and a signal
\* taken with no batch open sends nothing.
C11_TickFlushesEach ==
    /\ [](bpc = "timer" =>
            /\ tickOpen = SeqRange(tickSent) \cup DOMAIN batches
            /\ SeqRange(tickSent) \cap DOMAIN batches = {}
            /\ Len(tickSent) = Cardinality(SeqRange(tickSent))
            /\ DOMAIN batches # {})
    /\ [][TimerSend =>
            \E c \in DOMAIN batches :
                /\ c \notin SeqRange(tickSent)
                /\ batch' = batches[c]
                /\ DOMAIN batches' = DOMAIN batches \ {c}
                /\ \A d \in DOMAIN batches' : batches'[d] = batches[d]]_vars
    /\ [][(bpc = "timer" /\ bpc' = "select") =>
            /\ batches' = EmptyMap
            /\ Len(tickSent) + 1 = Cardinality(tickOpen)]_vars
    /\ [][(bpc = "select" /\ tpc = "ready" /\ tpc' # tpc) =>
            /\ UNCHANGED <<batches, batch>>
            /\ bpc' = IF DOMAIN batches = {} THEN "select" ELSE "timer"]_vars

\* C11 witness: the timer loop, begun with two open batches, has sent one.
C11_Witness == bpc = "timer" /\ Len(tickSent) = 1 /\ Cardinality(tickOpen) = 2

\* The records of batch b are in the order the adapter took them.
InArrivalOrder(b) ==
    \A i, j \in 1..Len(b.Msgs) : i < j => b.Msgs[i].Time < b.Msgs[j].Time

\* C12: order is kept for each key from the adapter to the uploader: the
\* records of every batch are in arrival order; the batch the uploader holds
\* has only records that arrived after every record of the batches of the
\* same key it received before; and the records still with the batcher for a
\* key are in arrival order and arrived after every record of that key the
\* uploader has received.
C12_OrderPreserved ==
    /\ \A b \in AllBatches : InArrivalOrder(b)
    /\ (batch # NoBatch /\ batch.Msgs # <<>>) =>
            \A i \in 1..Len(batch.Msgs) : batch.Msgs[i].Time > lastTime[Key]
    /\ \A k \in DOMAIN pending :
            /\ InArrivalOrder([Msgs |-> pending[k]])
            /\ \A i \in 1..Len(pending[k]) :
                    /\ pending[k][i].Time > lastTime[k]
                    /\ (batch # NoBatch /\ batch.Msgs # <<>> /\ Key = k) =>
                            pending[k][i].Time > batch.Msgs[Len(batch.Msgs)].Time
            /\ k \in DOMAIN batches =>
                    \E n \in 0..1 : Len(pending[k]) = Len(batches[k].Msgs) + n
                        /\ batches[k].Msgs = SubSeq(pending[k], 1, Len(batches[k].Msgs))

\* C12 witness: the uploader holds the second batch it received for a key.
C12_Witness == batch # NoBatch /\ batch.Msgs # <<>> /\ lastTime[Key] > 0

\* No record of msgs is larger than MAX_BATCH_SIZE on its own.
NoneOversized(msgs) == \A i \in 1..Len(msgs) : ~Oversized(msgs[i])

\* C13: when the records of a key cross MAX_BATCH_SIZE at a record, none of
\* them oversized on its own, the batcher produces exactly two batches: the
\* one it sends holds, in order, all the records of the key that came before
\* the crossing record (at least one, within the bound, and over it with the
\* crossing record), and the open one holds the crossing record alone.
C13_SplitAtCrossing ==
    [][(bpc = "overflow" /\ bpc' = "select" /\ NoneOversized(pending[bmsg.Container])) =>
        LET k == bmsg.Container
            n == Len(pending[k])
        IN  /\ n >= 2 /\ pending[k][n] = bmsg
            /\ batch'.Msgs = SubSeq(pending[k], 1, n - 1)
            /\ WireSize(batch'.Msgs) <= 3000
            /\ WireSize(pending[k]) > 3000
            /\ batches'[k].Msgs = <<bmsg>>
            /\ pending'[k] = <<bmsg>>]_vars

\* C13 witness: the uploader holds the batch sent at a crossing and the
\* crossing record is alone in the open batch of the key.
C13_Witness ==
    /\ bpc = "select" /\ batch # NoBatch /\ batch.Msgs # <<>>
    /\ Key \in DOMAIN batches /\ Len(batches[Key].Msgs) = 1
    /\ NoneOversized(batch.Msgs \o batches[Key].Msgs)
    /\ WireSize(batch.Msgs \o batches[Key].Msgs) > 3000
    /\ batches[Key].Msgs[1].Time = batch.Msgs[Len(batch.Msgs)].Time + 1

\* The operations of the remote calls made for batch, in order.
CallOps == [i \in 1..Len(calls) |-> calls[i].op]

\* Handling of batch is over; it began without a cached token, every remote
\* call succeeded, the stream was found absent and created once, and the
\* batch was submitted.
FreshDestinationDone ==
    /\ upc = "idle" /\ batch # NoBatch /\ batch.Msgs # <<>>
    /\ Key \notin DOMAIN startTokens
    /\ calls # <<>> /\ LastCall = Call("putRecords", "ok")
    /\ \A i \in 1..Len(calls) : calls[i].res \notin {"err", "many"}
    /\ NumCalls("createStream") = 1 /\ NumCalls("createGroup") <= 1

\* C14: for a destination without a stream and without a cached token, all
\* remote calls succeeding, the calls made for the batch are, in order, the
\* group check, createGroup if the group was absent, the stream lookup,
\* createStream, the stream lookup, putRecords.
C14_FreshDestinationCalls ==
    FreshDestinationDone =>
        CallOps \in { <<"groupExists", "describeStream", "createStream",
                        "describeStream", "putRecords">>,
                      <<"groupExists", "createGroup", "describeStream", "createStream",
                        "describeStream", "putRecords">> }

\* C15: a stream lookup that returns more than one stream is the last remote
\* call made for the batch: the uploader is back waiting for a batch, no
\* putRecords was called, no token was taken for the batch, and the token
\* cache is as it was when the batch arrived.
C15_AmbiguousAbandons ==
    \A i \in 1..Len(calls) :
        calls[i] = Call("describeStream", "many") =>
            /\ i = Len(calls)
            /\ upc = "idle"
            /\ NumCalls("putRecords") = 0
            /\ token = Nil
            /\ tokens = startTokens

\* C15 witness: the handling of a batch ended with a lookup that returned
\* more than one stream, with a token cached for another key.
C15_Witness ==
    /\ calls # <<>> /\ LastCall = Call("describeStream", "many")
    /\ DOMAIN tokens # {}

\* The adapter takes a record.
TakesRecord == clock' # clock

\* C16: a record whose metadata lookup fails is dropped: the step that takes
\* it writes no cache entry, hands nothing to the batcher and leaves the
\* adapter ready for the next record; after it the adapter is not blocked on
\* a send; and a record taken later whose lookup succeeds or is answered by
\* the cache is sent to the batcher.
C16_FailedLookupDrops ==
    /\ [][(TakesRecord /\ inspected'.res = "err") =>
            /\ UNCHANGED <<groupnames, streamnames, amsg, batcherVars>>
            /\ apc' = "range"
            /\ lookups'[inspected'.name] = lookups[inspected'.name] + 1]_vars
    /\ [](inspected.res = "err" => apc = "range")
    /\ [][(TakesRecord /\ inspected'.res # "err") =>
            /\ apc' = "send"
            /\ amsg'.Container = TrimPrefix(inspected'.name, "/")
            /\ amsg'.Time = clock']_vars

\* C16 witness: the adapter sends a record of a container whose earlier
\* record was dropped for a failed lookup.
C16_Witness ==
    /\ apc = "send" /\ inspected.res = "ok"
    /\ lookups[inspected.name] = 2

\* The template text chosen for envKey of the record the adapter holds cannot
\* be parsed or executed.
NamingFails(envKey, defaultVal) ==
    LET context == RenderContext(inspected.name)
        text    == SelectFinalVal(envKey, context, defaultVal, environ, options)
    IN  ParseFails(text) \/ ExecuteFails(text, context)

\* C17: when the template text chosen for a slot cannot be parsed or
\* executed, the record whose names are resolved carries the default of that
\* slot (the logger's host for the group, the container's name for the
\* stream), the default is what is cached for the container, and the record
\* is sent to the batcher, which takes it.
C17_NamingFailureDefaults ==
    /\ []((apc = "send" /\ inspected.res = "ok") =>
            /\ NamingFails("LOG_GROUP", osHost) =>
                    /\ amsg.Group = osHost
                    /\ groupnames[inspected.name] = osHost
            /\ NamingFails("LOG_STREAM", TrimPrefix(inspected.name, "/")) =>
                    /\ amsg.Stream = TrimPrefix(inspected.name, "/")
                    /\ streamnames[inspected.name] = TrimPrefix(inspected.name, "/"))
    /\ [][(TakesRecord /\ inspected'.res = "ok") => apc' = "send"]_vars
    /\ [][(apc = "send" /\ apc' = "range") =>
            pending'[amsg.Container] = Append(pending[amsg.Container], amsg)]_vars

\* C17 witness: the batcher has taken a record whose group template could
\* not be executed and whose stream template could not be parsed.
C17_Witness ==
    /\ apc = "range" /\ clock = 1
    /\ \E name \in ContainerNames :
            /\ ExecuteFails(SelectFinalVal("LOG_GROUP", RenderContext(name), osHost,
                                           environ, options), RenderContext(name))
            /\ ParseFails(SelectFinalVal("LOG_STREAM", RenderContext(name),
                                         TrimPrefix(name, "/"), environ, options))
            /\ Len(pending[TrimPrefix(name, "/")]) = 1
            /\ pending[TrimPrefix(name, "/")][1].Group = osHost
            /\ pending[TrimPrefix(name, "/")][1].Stream = TrimPrefix(name, "/")

\* C18: while and after the uploader handles a batch, the cached token of
\* every key other than the batch's is what it was when the batch arrived,
\* whatever the remote calls answered; and a batch that found its key in the
\* cache is submitted with the token that entry held when it arrived.
C18_OtherEntriesUntouched ==
    /\ (batch # NoBatch /\ batch.Msgs # <<>>) =>
            /\ \A k \in NameSuffixes \ {Key} : Entry(tokens, k) = Entry(startTokens, k)
            /\ (upc = "put" /\ Key \in DOMAIN startTokens) => token = startTokens[Key]
    /\ (batch = NoBatch \/ batch.Msgs = <<>>) => tokens = startTokens

\* C18 witness: a submission has changed the entry of the batch's key while
\* another key has a cached token.
C18_Witness ==
    /\ upc = "idle" /\ calls # <<>> /\ LastCall = Call("putRecords", "ok")
    /\ Entry(tokens, Key) # Entry(startTokens, Key)
    /\ \E k \in NameSuffixes \ {Key} : k \in DOMAIN tokens

\* The record the adapter took as its t-th is in an open batch; the uploader
\* holds a batch with that record.
InOpenBatch(t) ==
    \E k \in DOMAIN batches : \E i \in 1..Len(batches[k].Msgs) : batches[k].Msgs[i].Time = t
ReceivedInBatch(t) ==
    batch # NoBatch /\ \E i \in 1..Len(batch.Msgs) : batch.Msgs[i].Time = t

\* C19: under fair scheduling every record in an open batch is eventually
\* received by the uploader in a batch.
C19_EventuallyHandedOver ==
    \A t \in 1..MaxRecords : InOpenBatch(t) ~> ReceivedInBatch(t)

\* C20: the remote calls made for a batch are in protocol order: createGroup
\* directly after a group check that reported the group absent; createStream
\* directly after a stream lookup that returned no stream; putRecords as the
\* first call of a batch whose key was in the token cache, or directly after
\* the stream lookup with which getSequenceToken returned a stream; and a
\* group check, lookup or creation that failed is the last call made for the
\* batch.
C20_ProtocolOrder ==
    \A i \in 1..Len(calls) :
        /\ calls[i].op = "createGroup" =>
                i > 1 /\ calls[i - 1] = Call("groupExists", "absent")
        /\ calls[i].op = "createStream" =>
                i > 1 /\ calls[i - 1] = Call("describeStream", "none")
        /\ calls[i].op = "putRecords" =>
                \/ i = 1 /\ Key \in DOMAIN startTokens
                \/ i > 1 /\ calls[i - 1] = Call("describeStream", "one")
                         /\ Key \notin DOMAIN startTokens
        /\ (calls[i].op # "putRecords" /\ calls[i].res \in {"err", "many"}) =>
                i = Len(calls) /\ upc = "idle"

\* C20 witness: a batch was submitted after its group and its stream were
\* created.
C20_Witness ==
    /\ calls # <<>> /\ LastCall.op = "putRecords"
    /\ NumCalls("createGroup") >= 1 /\ NumCalls("createStream") >= 1

\* The Times of the records in the open batches, and of the record the
\* batcher holds while it sends the batch that could not take it.
OpenTimes == UNION { Times(batches[k].Msgs) : k \in DOMAIN batches }
InHand == IF bpc = "overflow" THEN {bmsg.Time} ELSE {}

\* C21: the batcher neither loses nor duplicates records: every record it
\* has taken is in exactly one place, a batch it has sent or the open batch of
\* its key (or, while the batcher is sending the batch that could not take
\* it, in the batcher's hand), and is there once; a batch that is sent has
\* each of its records once and none that was sent before.
C21_NoLossNoDup ==
    /\ [](/\ accepted = sent \cup OpenTimes \cup InHand
          /\ sent \cap OpenTimes = {}
          /\ InHand \cap (sent \cup OpenTimes) = {}
          /\ \A k1, k2 \in DOMAIN batches :
                \A i \in 1..Len(batches[k1].Msgs), j \in 1..Len(batches[k2].Msgs) :
                    batches[k1].Msgs[i].Time = batches[k2].Msgs[j].Time
                        => (k1 = k2 /\ i = j)
          /\ \A k \in DOMAIN batches :
                \A i \in 1..Len(batches[k].Msgs) : batches[k].Msgs[i].Container = k)
    /\ [][sent' # sent =>
            /\ Times(batch'.Msgs) \cap sent = {}
            /\ Cardinality(Times(batch'.Msgs)) = Len(batch'.Msgs)
            /\ sent' = sent \cup Times(batch'.Msgs)]_vars

\* C21 witness: with the batcher at its select, one record it took is in a
\* batch it sent and another in an open batch.
C21_Witness == bpc = "select" /\ sent # {} /\ OpenTimes # {}

\* C22: every batch is homogeneous: all its records carry the Container,
\* Group and Stream of its first record, an open batch is filed under the
\* Container of its records, and so the key under which the uploader looks
\* up and caches the token of a batch, and the group and stream it submits
\* the batch to, are those of every record of the batch.
C22_Homogeneous ==
    /\ \A b \in AllBatches : \A i \in 1..Len(b.Msgs) :
            /\ b.Msgs[i].Container = b.Msgs[1].Container
            /\ b.Msgs[i].Group = b.Msgs[1].Group
            /\ b.Msgs[i].Stream = b.Msgs[1].Stream
    /\ \A k \in DOMAIN batches : \A i \in 1..Len(batches[k].Msgs) :
            batches[k].Msgs[i].Container = k
    /\ (batch # NoBatch /\ batch.Msgs # <<>>) =>
            \A i \in 1..Len(batch.Msgs) : batch.Msgs[i].Container = Key

\* C22 witness: the uploader is about to submit a batch of two records.
C22_Witness == upc = "put" /\ batch # NoBatch /\ Len(batch.Msgs) >= 2

\* C23: when the uploader is about to call PutLogEvents for a batch whose
\* token getSequenceToken returned, the remote service has a group of
\* exactly the batch's group name and a stream of exactly its stream name,
\* and the token is that stream's.
C23_SubmitsToOwnStream ==
    (upc = "put" /\ Key \notin DOMAIN startTokens) =>
        /\ Group \in rgroups
        /\ Stream \in DOMAIN rstreams
        /\ token = rstreams[Stream]

\* The group and stream the records of container name are resolved to, and
\* whether the uploader's destination is that of one container only.
Resolved(name) ==
    <<renderEnvValue("LOG_GROUP", RenderContext(name), osHost, environ, options),
      renderEnvValue("LOG_STREAM", RenderContext(name), TrimPrefix(name, "/"),
                     environ, options)>>
Unshared == Cardinality({ name \in ContainerNames : Resolved(name) = <<Group, Stream>> }) <= 1

\* C24 as stated: once a submission to a group and stream has succeeded, a
\* submission to them carries the token the last successful one returned.
C24_CarriesLastToken ==
    (upc = "put" /\ <<Group, Stream>> \in DOMAIN lastPut) =>
        token = lastPut[<<Group, Stream>>]

\* C24: once a submission to a group and stream has succeeded, a submission
\* to them carries the token the last successful one returned, provided no
\* other container is resolved to the same group and stream.
C24_CarriesLastTokenUnshared ==
    (upc = "put" /\ <<Group, Stream>> \in DOMAIN lastPut /\ Unshared) =>
        token = lastPut[<<Group, Stream>>]

\* C24 witness: the uploader is about to submit the third batch to a stream
\* of one container, with the token the second submission returned.
C24_Witness ==
    /\ upc = "put" /\ Unshared
    /\ <<Group, Stream>> \in DOMAIN lastPut
    /\ lastPut[<<Group, Stream>>] = "t2" /\ token = "t2"

\* C25: the pipeline never deadlocks: in every reachable state some
\* goroutine can take a step, a record the adapter offers on b.Input is
\* eventually taken by the batcher, and a signal the timer offers on b.timer
\* is eventually taken by the batcher.
C25_NeverStuck ==
    /\ [](ENABLED <<Next>>_vars)
    /\ (apc = "send") ~> (apc = "range")
    /\ (tpc = "ready") ~> (tpc = "sleep")

====
